---- MODULE Spec2Model ----
(***************************************************************************)
(* A model of ccommon's mbuf module (src/src/cc_mbuf.c): fixed-size        *)
(* buffers whose header sits at the tail of the chunk, their read/write    *)
(* cursors, the in-place shift/copy/split operations, the caller's mbuf    *)
(* queue and the free pool.                                                *)
(*                                                                         *)
(* Memory is one flat address space.  Address 0 is NULL.  A region of      *)
(* caller data (ExtData) sits directly below the first chunk; the chunks   *)
(* the allocator hands out are the slots 1..NSlots, MaxChunk bytes apart.  *)
(* An ASSERT of the source that fails ends the run in status "abort" with  *)
(* the effects made before it in place.                                    *)
(***************************************************************************)
EXTENDS Integers, Sequences, FiniteSets, TLC

\* ---------------------------------------------------------------- bounds
\* the chunks the allocator has, the largest chunk size, the calls of a run,
\* the calls of a run of the queue operations, and the bits of a uint32_t
NSlots == 2
MaxChunk == 5
MaxCalls == 4
MaxQueueCalls == 7
WordBits == 4

\* ------------------------------------------------------------- constants
MBUF_HDR_SIZE == 2
MBUF_MAGIC == 48879
MBUF_SIZE == 4

NULL == 0
Modulus == 2 ^ WordBits
Slots == 1 .. NSlots
\* the chunks of a run of the queue operations: one more, to have a middle
QueueSlots == 1 .. (NSlots + 1)
ExtData == <<1, 2>>
ExtBase == NULL + 1
ExtLen == Len(ExtData)
Byte == 0 .. 2
SlotBase(i) == ExtBase + ExtLen + (i - 1) * MaxChunk
MemTop == ExtBase + ExtLen + NSlots * MaxChunk - 1
Addrs == ExtBase .. MemTop
\* a caller copies at most all of its data
MaxCopy == ExtLen
\* the pool is created without a retention ceiling, or with a ceiling of one mbuf
PoolMaxes == {0, 1}
\* the precopy handlers a caller splits with: none, or one that copies all its data
Precopies == {0, ExtLen}

\* the header of a chunk that is not allocated
NoHdr == [magic |-> 0, start |-> NULL, end |-> NULL, rpos |-> NULL,
          wpos |-> NULL, next |-> NULL]
\* what the last call was: its name, buffer, address and count arguments,
\* its result (a buffer, or NULL), and whether it called cc_alloc; for a remove
\* the address is the buffer that was queued in front of the removed one
NoCall == [op |-> "none", b |-> NULL, a |-> NULL, n |-> 0, r |-> NULL,
           alloc |-> FALSE]
Call(op, b, a, n, r, al) ==
    [op |-> op, b |-> b, a |-> a, n |-> n, r |-> r, alloc |-> al]

VARIABLES mbuf_chunk_size, mbuf_offset, configured, hdr, mem, heap, held, mq,
          mbufp, status, last, ncalls

vars == <<mbuf_chunk_size, mbuf_offset, configured, hdr, mem, heap, held, mq,
          mbufp, status, last, ncalls>>

\* ------------------------------------------------------- singly-linked tail queue
\* a queue head: first element and the element whose next field stqh_last
\* points at (NULL: stqh_last points at stqh_first)
EmptyQ == [first |-> NULL, last |-> NULL]

RECURSIVE Walk(_, _, _)
Walk(h, e, fuel) ==
    IF e = NULL \/ fuel = 0 THEN <<>> ELSE <<e>> \o Walk(h, h[e].next, fuel - 1)

QSeq(h, q) == Walk(h, q.first, Cardinality(DOMAIN h) + 1)
Range(s) == {s[k] : k \in 1 .. Len(s)}
QSet(h, q) == Range(QSeq(h, q))

STAILQ_INSERT_TAIL(h, q, e) ==
    LET h1 == [h EXCEPT ![e].next = NULL]
    IN  [hdr |-> IF q.last = NULL THEN h1 ELSE [h1 EXCEPT ![q.last].next = e],
         q   |-> [first |-> IF q.last = NULL THEN e ELSE q.first, last |-> e]]

STAILQ_REMOVE_HEAD(h, q) ==
    LET nf == h[q.first].next
    IN  [first |-> nf, last |-> IF nf = NULL THEN NULL ELSE q.last]

Pred(h, q, e) == CHOOSE c \in QSet(h, q) : h[c].next = e

STAILQ_REMOVE(h, q, e) ==
    IF q.first = e
    THEN [hdr |-> h, q |-> STAILQ_REMOVE_HEAD(h, q)]
    ELSE LET c  == Pred(h, q, e)
             nn == h[e].next
         IN  [hdr |-> [h EXCEPT ![c].next = nn],
              q   |-> [first |-> q.first,
                       last |-> IF nn = NULL THEN c ELSE q.last]]

\* ------------------------------------------------------------------ memory
Overlap(a, b, n) == n > 0 /\ a < b + n /\ b < a + n

RECURSIVE CopyFwd(_, _, _, _)
CopyFwd(m, dst, src, n) ==
    IF n = 0 THEN m
    ELSE CopyFwd([m EXCEPT ![dst] = m[src]], dst + 1, src + 1, n - 1)

RECURSIVE CopyBwd(_, _, _, _)
CopyBwd(m, dst, src, n) ==
    IF n = 0 THEN m
    ELSE CopyBwd([m EXCEPT ![dst + n - 1] = m[src + n - 1]], dst, src, n - 1)

\* memcpy: on overlapping areas the result is whatever the copy order gives
cc_memcpy(m, dst, src, n, dir) ==
    IF dir = "bwd" THEN CopyBwd(m, dst, src, n) ELSE CopyFwd(m, dst, src, n)

\* memmove: as if through a temporary
cc_memmove(m, dst, src, n) ==
    [a \in DOMAIN m |-> IF a >= dst /\ a < dst + n THEN m[src + (a - dst)] ELSE m[a]]

Bytes(m, from, to) == [k \in 1 .. (to - from) |-> m[from + k - 1]]

\* ------------------------------------------------------------------ buffer
mbuf_reset(h) == [h EXCEPT !.rpos = h.start, !.wpos = h.start]

RsizeOK(h) == h.wpos >= h.rpos
mbuf_rsize(h) == (h.wpos - h.rpos) % Modulus

WsizeOK(h) == h.end >= h.wpos
mbuf_wsize(h) == (h.end - h.wpos) % Modulus

mbuf_capacity == mbuf_offset

mbuf_full(h) == h.wpos = h.end

Body(h) == h.start .. (h.end - 1)

\* the allocator: heap[i] is the size of the live allocation in slot i, 0 if none
Alive(hp) == {i \in DOMAIN hp : hp[i] > 0}
FreeSlots(hp) == DOMAIN hp \ Alive(hp)
LowestFree(hp) == CHOOSE i \in FreeSlots(hp) : \A j \in FreeSlots(hp) : i <= j
\* what cc_alloc(size) may answer: NULL, or the lowest free slot when the size
\* fits a slot
AllocChoices(hp, size) ==
    {NULL} \cup (IF FreeSlots(hp) = {} \/ size > MaxChunk THEN {}
                ELSE {LowestFree(hp)})

\* what the header fields mbuf_create leaves uninitialised may hold in chunk p:
\* either end of the body for a cursor, NULL or some mbuf for the link
Garbage(off, p) ==
    [rpos : {0, off}, wpos : {0, off}, next : {NULL, p}]
\* mbuf_borrow overwrites all three, so there one value stands for all
NoGarbage == [rpos |-> 0, wpos |-> 0, next |-> NULL]

\* mbuf_create with cc_alloc answering slot p (NULL: failure); g is what the
\* uninitialised cursors and link hold; the body holds what the slot held before
\* variant: the header put MBUF_HDR_SIZE bytes into the chunk, the body behind it
mbuf_create_hdr_first(s, cs, off, p, g) ==
    IF p = NULL
    THEN [s EXCEPT !.ret = NULL]
    ELSE LET buf  == SlotBase(p)
             mbuf == buf + (cs - off)
         IN  [s EXCEPT
                !.heap[p] = cs,
                !.hdr[p] = [magic |-> MBUF_MAGIC, start |-> buf, end |-> mbuf,
                            rpos |-> buf + g.rpos, wpos |-> buf + g.wpos,
                            next |-> g.next],
                !.ret = p]

mbuf_create(s, cs, off, p, g) ==
    IF p = NULL
    THEN [s EXCEPT !.ret = NULL]
    ELSE LET buf  == SlotBase(p)
             mbuf == buf + off
         IN  [s EXCEPT
                !.heap[p] = cs,
                !.hdr[p] = [magic |-> MBUF_MAGIC, start |-> buf, end |-> mbuf,
                            rpos |-> buf + g.rpos, wpos |-> buf + g.wpos,
                            next |-> g.next],
                !.ret = p]

\* cc_free of the chunk: the slot is free again and its header is gone
cc_free(s, b) == [s EXCEPT !.heap[b] = 0, !.hdr[b] = NoHdr]

mbuf_destroy(s, b) ==
    IF s.hdr[b].next # NULL \/ s.hdr[b].magic # MBUF_MAGIC
    THEN [s EXCEPT !.ok = FALSE]
    ELSE cc_free(s, b)

\* variant: the bytes that fit are written before the space is checked
mbuf_copy_write_first(s, b, addr, n, dir) ==
    LET h == s.hdr[b]
        k == IF n <= mbuf_wsize(h) THEN n ELSE mbuf_wsize(h)
        w == [s EXCEPT !.mem = cc_memcpy(s.mem, h.wpos, addr, k, dir),
                       !.hdr[b].wpos = h.wpos + k]
    IN  IF n = 0 THEN s
        ELSE IF ~WsizeOK(h) THEN [s EXCEPT !.ok = FALSE]
        ELSE IF k < n THEN [w EXCEPT !.ok = FALSE]
        ELSE IF ~(addr < h.start \/ addr >= h.end) THEN [s EXCEPT !.ok = FALSE]
        ELSE w

\* variant: the bytes are written at rpos, not at wpos
mbuf_copy_at_rpos(s, b, addr, n, dir) ==
    LET h == s.hdr[b]
    IN  IF n = 0 THEN s
        ELSE IF mbuf_full(h) \/ ~WsizeOK(h) \/ n > mbuf_wsize(h)
        THEN [s EXCEPT !.ok = FALSE]
        ELSE IF ~(addr < h.start \/ addr >= h.end)
        THEN [s EXCEPT !.ok = FALSE]
        ELSE [s EXCEPT !.mem = cc_memcpy(s.mem, h.rpos, addr, n, dir),
                       !.hdr[b].wpos = h.wpos + n]

mbuf_copy(s, b, addr, n, dir) ==
    LET h == s.hdr[b]
    IN  IF n = 0 THEN s
        ELSE IF mbuf_full(h) \/ ~WsizeOK(h) \/ n > mbuf_wsize(h)
        THEN [s EXCEPT !.ok = FALSE]
        ELSE IF ~(addr < h.start \/ addr >= h.end)
        THEN [s EXCEPT !.ok = FALSE]
        ELSE [s EXCEPT !.mem = cc_memcpy(s.mem, h.wpos, addr, n, dir),
                       !.hdr[b].wpos = h.wpos + n]

\* variant: the bytes are moved by a copy from the last byte down
mbuf_lshift_copy_bwd(s, b) ==
    LET h == s.hdr[b]
        sz == mbuf_rsize(h)
    IN  IF ~RsizeOK(h) THEN [s EXCEPT !.ok = FALSE]
        ELSE [s EXCEPT !.mem = CopyBwd(s.mem, h.start, h.rpos, sz),
                       !.hdr[b].rpos = h.start,
                       !.hdr[b].wpos = h.start + sz]

mbuf_lshift(s, b) ==
    LET h == s.hdr[b]
        sz == mbuf_rsize(h)
    IN  IF ~RsizeOK(h) THEN [s EXCEPT !.ok = FALSE]
        ELSE [s EXCEPT !.mem = cc_memmove(s.mem, h.start, h.rpos, sz),
                       !.hdr[b].rpos = h.start,
                       !.hdr[b].wpos = h.start + sz]

\* variant: the bytes are moved by a copy from the first byte up
mbuf_rshift_copy_fwd(s, b) ==
    LET h == s.hdr[b]
        sz == mbuf_rsize(h)
    IN  IF ~RsizeOK(h) THEN [s EXCEPT !.ok = FALSE]
        ELSE [s EXCEPT !.mem = CopyFwd(s.mem, h.end - sz, h.rpos, sz),
                       !.hdr[b].rpos = h.end - sz,
                       !.hdr[b].wpos = h.end]

mbuf_rshift(s, b) ==
    LET h == s.hdr[b]
        sz == mbuf_rsize(h)
    IN  IF ~RsizeOK(h) THEN [s EXCEPT !.ok = FALSE]
        ELSE [s EXCEPT !.mem = cc_memmove(s.mem, h.end - sz, h.rpos, sz),
                       !.hdr[b].rpos = h.end - sz,
                       !.hdr[b].wpos = h.end]

mbuf_insert(s, b) ==
    LET r == STAILQ_INSERT_TAIL(s.hdr, s.mq, b)
    IN  [s EXCEPT !.hdr = r.hdr, !.mq = r.q]

\* variant: the removed buffer keeps the link it had in the queue
mbuf_remove_keep_link(s, b) ==
    LET r == STAILQ_REMOVE(s.hdr, s.mq, b)
    IN  [s EXCEPT !.hdr = r.hdr, !.mq = r.q]

mbuf_remove(s, b) ==
    LET r == STAILQ_REMOVE(s.hdr, s.mq, b)
    IN  [s EXCEPT !.hdr = [r.hdr EXCEPT ![b].next = NULL], !.mq = r.q]

\* ------------------------------------------------------------------- pool
FREEPOOL_CREATE(s, max) ==
    [s EXCEPT !.pool = [freeq |-> EmptyQ, nfree |-> 0, nmax |-> max,
                        initialized |-> TRUE]]

FREEPOOL_BORROW(s, cs, off, p, g) ==
    IF s.pool.freeq.first # NULL
    THEN LET var == s.pool.freeq.first
         IN  [s EXCEPT !.pool.freeq = STAILQ_REMOVE_HEAD(s.hdr, s.pool.freeq),
                       !.pool.nfree = @ - 1,
                       !.hdr[var].next = NULL,
                       !.ret = var]
    ELSE LET c == mbuf_create([s EXCEPT !.alloc = TRUE], cs, off, p, g)
         IN  IF c.ret = NULL THEN c ELSE [c EXCEPT !.hdr[c.ret].next = NULL]

\* variant: the buffer is handed out as the pool gave it, without a reset
mbuf_borrow_no_reset(s, cs, off, p, g) == FREEPOOL_BORROW(s, cs, off, p, g)

\* variant: every borrow allocates, the free list is never asked
mbuf_borrow_always_new(s, cs, off, p, g) ==
    LET c == mbuf_create([s EXCEPT !.alloc = TRUE], cs, off, p, g)
    IN  IF c.ret = NULL THEN c
        ELSE [c EXCEPT !.hdr[c.ret] = mbuf_reset([c.hdr[c.ret] EXCEPT !.next = NULL])]

\* variant: a borrow that got no buffer is taken for a fatal error
mbuf_borrow_abort_on_null(s, cs, off, p, g) ==
    LET r == FREEPOOL_BORROW(s, cs, off, p, g)
    IN  IF r.ret = NULL THEN [r EXCEPT !.ok = FALSE]
        ELSE [r EXCEPT !.hdr[r.ret] = mbuf_reset(r.hdr[r.ret])]

mbuf_borrow(s, cs, off, p, g) ==
    LET r == FREEPOOL_BORROW(s, cs, off, p, g)
    IN  IF r.ret = NULL THEN r
        ELSE [r EXCEPT !.hdr[r.ret] = mbuf_reset(r.hdr[r.ret])]

FREEPOOL_RETURN(s, b) ==
    IF s.pool.nmax > 0 /\ s.pool.nfree >= s.pool.nmax
    THEN mbuf_destroy(s, b)
    ELSE LET r == STAILQ_INSERT_TAIL(s.hdr, s.pool.freeq, b)
         IN  [s EXCEPT !.hdr = r.hdr, !.pool.freeq = r.q, !.pool.nfree = @ + 1]

\* variant: the pool keeps every returned buffer, whatever its ceiling
mbuf_return_keep_all(s, b) ==
    IF s.hdr[b].next # NULL \/ s.hdr[b].magic # MBUF_MAGIC
    THEN [s EXCEPT !.ok = FALSE]
    ELSE LET r == STAILQ_INSERT_TAIL(s.hdr, s.pool.freeq, b)
         IN  [s EXCEPT !.hdr = r.hdr, !.pool.freeq = r.q, !.pool.nfree = @ + 1]

mbuf_return(s, b) ==
    IF s.hdr[b].next # NULL \/ s.hdr[b].magic # MBUF_MAGIC
    THEN [s EXCEPT !.ok = FALSE]
    ELSE FREEPOOL_RETURN(s, b)

RECURSIVE FREEPOOL_DESTROY(_)
FREEPOOL_DESTROY(s) ==
    IF s.pool.freeq.first = NULL
    THEN [s EXCEPT !.pool = [freeq |-> EmptyQ, nfree |-> 0, nmax |-> 0,
                             initialized |-> FALSE]]
    ELSE LET var == s.pool.freeq.first
             s1  == [s EXCEPT !.pool.freeq = STAILQ_REMOVE_HEAD(s.hdr, s.pool.freeq),
                              !.pool.nfree = @ - 1]
             s2  == mbuf_destroy(s1, var)
         IN  IF s2.ok THEN FREEPOOL_DESTROY(s2) ELSE s2

mbuf_pool_create(s, max) == FREEPOOL_CREATE(s, max)

mbuf_pool_destroy(s) == FREEPOOL_DESTROY(s)

\* the precopy handler of a caller: it puts the first n bytes of the caller's
\* data at the head of the new mbuf
precopy(s, nbuf, n) == mbuf_copy(s, nbuf, ExtBase, n, "fwd")

\* variant: the unread bytes are copied from rpos on, not from addr on
mbuf_split_from_rpos(s, b, addr, cbn, cs, off, p, g) ==
    LET s1 == mbuf_borrow(s, cs, off, p, g)
        nbuf == s1.ret
    IN  IF nbuf = NULL THEN s1
        ELSE LET s2 == IF cbn # 0 THEN precopy(s1, nbuf, cbn) ELSE s1
                 sz == (s2.hdr[b].wpos - addr) % Modulus
                 s3 == IF s2.ok THEN mbuf_copy(s2, nbuf, s2.hdr[b].rpos, sz, "fwd")
                       ELSE s2
             IN  IF s3.ok THEN [s3 EXCEPT !.hdr[b].wpos = addr] ELSE s3

\* variant: mbuf is adjusted before the borrowed buffer is looked at
mbuf_split_adjust_first(s, b, addr, cbn, cs, off, p, g) ==
    LET s1 == mbuf_borrow(s, cs, off, p, g)
        nbuf == s1.ret
    IN  IF nbuf = NULL THEN [s1 EXCEPT !.hdr[b].wpos = addr]
        ELSE LET s2 == IF cbn # 0 THEN precopy(s1, nbuf, cbn) ELSE s1
                 sz == (s2.hdr[b].wpos - addr) % Modulus
                 s3 == IF s2.ok THEN mbuf_copy(s2, nbuf, addr, sz, "fwd") ELSE s2
             IN  IF s3.ok THEN [s3 EXCEPT !.hdr[b].wpos = addr] ELSE s3

\* variant: the precopy handler runs after the data is copied, not before
mbuf_split_precopy_last(s, b, addr, cbn, cs, off, p, g) ==
    LET s1 == mbuf_borrow(s, cs, off, p, g)
        nbuf == s1.ret
    IN  IF nbuf = NULL THEN s1
        ELSE LET sz == (s1.hdr[b].wpos - addr) % Modulus
                 s2 == mbuf_copy(s1, nbuf, addr, sz, "fwd")
                 s3 == IF s2.ok /\ cbn # 0 THEN precopy(s2, nbuf, cbn) ELSE s2
             IN  IF s3.ok THEN [s3 EXCEPT !.hdr[b].wpos = addr] ELSE s3

\* mbuf_split(mbuf, addr, cb, cbarg); cbn = 0 stands for cb == NULL
mbuf_split(s, b, addr, cbn, cs, off, p, g) ==
    LET s1 == mbuf_borrow(s, cs, off, p, g)
        nbuf == s1.ret
    IN  IF nbuf = NULL THEN s1
        ELSE LET s2 == IF cbn # 0 THEN precopy(s1, nbuf, cbn) ELSE s1
                 sz == (s2.hdr[b].wpos - addr) % Modulus
                 s3 == IF s2.ok THEN mbuf_copy(s2, nbuf, addr, sz, "fwd") ELSE s2
             IN  IF s3.ok THEN [s3 EXCEPT !.hdr[b].wpos = addr] ELSE s3

\* mbuf_setup: the module constants, and whether its assertion holds
SetupOffset(chunk_size) == (chunk_size - MBUF_HDR_SIZE) % Modulus
\* variant: the assertion is offset > 0 alone
SetupOK_positive_only(chunk_size) ==
    SetupOffset(chunk_size) > 0

SetupOK(chunk_size) ==
    SetupOffset(chunk_size) > 0 /\ SetupOffset(chunk_size) < chunk_size

\* --------------------------------------------------------------- the machine
\* the program state as the record the operations above work on
Cur == [hdr |-> hdr, mem |-> mem, heap |-> heap, pool |-> mbufp, mq |-> mq,
        ok |-> TRUE, ret |-> NULL, alloc |-> FALSE]

\* a buffer the caller still holds (h) or has in its queue though it was freed or
\* given to the free list: every later use of it is a use after release
Released(s, h) ==
    \E i \in h \cup QSet(s.hdr, s.mq) :
        s.heap[i] = 0 \/ i \in QSet(s.hdr, s.pool.freeq)

\* the state after a call that left s, with the caller then holding h
Apply(s, h, call) ==
    /\ hdr' = s.hdr
    /\ mem' = s.mem
    /\ heap' = s.heap
    /\ mbufp' = s.pool
    /\ mq' = s.mq
    /\ held' = IF s.ok THEN h ELSE held
    /\ status' = IF ~s.ok THEN "abort"
                 ELSE IF Released(s, h) THEN "undef" ELSE "run"
    /\ last' = call
    /\ ncalls' = ncalls + 1

\* the module is set up once, the pool created once after that and destroyed
\* once at the end, when the callers have given back what they held; the calls
\* in between are counted
\* a run with the NSlots chunks makes MaxCalls calls; a run of the queue
\* operations, which has one chunk more and leaves the bodies alone, MaxQueueCalls
CallLimit == IF Cardinality(DOMAIN heap) > NSlots THEN MaxQueueCalls ELSE MaxCalls
Running == status = "run" /\ configured /\ mbufp.initialized /\ ncalls < CallLimit
Queued == QSet(hdr, mq)
\* the buffers a caller can name: those it holds and those in its queue
Callable == held \cup Queued
\* the addresses a caller may read from: its data and the bodies of live buffers
Readable(a) ==
    \/ a >= ExtBase /\ a < ExtBase + ExtLen
    \/ \E i \in Alive(heap) : a \in Body(hdr[i])
\* what a caller copies: nothing, a prefix of its data, its data from the last
\* byte on into the chunk above, or the first byte of the buffer itself
CopySources(b) ==
    {<<ExtBase, n>> : n \in 0 .. MaxCopy}
        \cup {<<ExtBase + ExtLen - 1, ExtLen>>, <<hdr[b].start, 1>>}
\* where a caller splits: anywhere in the unread data, and one byte to either
\* side of it
SplitPoints(h) ==
    {a \in h.start .. h.end : a >= h.rpos - 1 /\ a <= h.wpos + 1}
\* the chunk sizes mbuf_setup is called with: those without room for a body,
\* and the largest
ChunkSizes == (0 .. MBUF_HDR_SIZE) \cup {MaxChunk}
\* every value of a uint32_t
AllChunkSizes == 0 .. (Modulus - 1)

Init ==
    /\ mbuf_chunk_size = MBUF_SIZE
    /\ mbuf_offset = 0
    /\ configured = FALSE
    /\ hdr = [i \in Slots |-> NoHdr]
    /\ mem = [a \in Addrs |-> IF a < ExtBase + ExtLen THEN ExtData[a - ExtBase + 1] ELSE 0]
    /\ heap = [i \in Slots |-> 0]
    /\ held = {}
    /\ mq = EmptyQ
    /\ mbufp = [freeq |-> EmptyQ, nfree |-> 0, nmax |-> 0, initialized |-> FALSE]
    /\ status = "run"
    /\ last = NoCall
    /\ ncalls = 0

Setup ==
    \E chunk_size \in ChunkSizes :
        /\ status = "run" /\ ~configured
        /\ mbuf_chunk_size' = chunk_size
        /\ mbuf_offset' = SetupOffset(chunk_size)
        /\ configured' = TRUE
        /\ status' = IF SetupOK(chunk_size) THEN "run" ELSE "abort"
        /\ last' = Call("setup", NULL, NULL, chunk_size, NULL, FALSE)
        /\ UNCHANGED <<hdr, mem, heap, held, mq, mbufp, ncalls>>

PoolCreate ==
    \E max \in PoolMaxes :
        /\ status = "run" /\ configured /\ ~mbufp.initialized /\ last.op = "setup"
        /\ mbufp' = mbuf_pool_create(Cur, max).pool
        /\ last' = Call("pool_create", NULL, NULL, max, NULL, FALSE)
        /\ UNCHANGED <<mbuf_chunk_size, mbuf_offset, configured, hdr, mem, heap,
                       held, mq, status, ncalls>>

PoolDestroy ==
    /\ status = "run" /\ configured /\ mbufp.initialized
    /\ held = {} /\ Queued = {}
    /\ Apply(mbuf_pool_destroy(Cur), held,
             Call("pool_destroy", NULL, NULL, 0, NULL, FALSE))
    /\ UNCHANGED <<mbuf_chunk_size, mbuf_offset, configured>>

Create ==
    \E p \in AllocChoices(heap, mbuf_chunk_size) : \E g \in Garbage(mbuf_offset, p) :
        /\ Running
        /\ LET s == mbuf_create([Cur EXCEPT !.alloc = TRUE],
                                mbuf_chunk_size, mbuf_offset, p, g)
           IN  Apply(s, held \cup ({s.ret} \ {NULL}),
                     Call("create", NULL, NULL, 0, s.ret, s.alloc))
        /\ UNCHANGED <<mbuf_chunk_size, mbuf_offset, configured>>

Destroy ==
    \E b \in Callable :
        /\ Running
        /\ Apply(mbuf_destroy(Cur, b), held \ {b},
                 Call("destroy", b, NULL, 0, NULL, FALSE))
        /\ UNCHANGED <<mbuf_chunk_size, mbuf_offset, configured>>

Reset ==
    \E b \in Callable :
        /\ Running
        /\ Apply([Cur EXCEPT !.hdr[b] = mbuf_reset(hdr[b])], held,
                 Call("reset", b, NULL, 0, NULL, FALSE))
        /\ UNCHANGED <<mbuf_chunk_size, mbuf_offset, configured>>

Insert ==
    \E b \in held :
        /\ Running
        /\ Apply(mbuf_insert(Cur, b), held \ {b},
                 Call("insert", b, NULL, 0, NULL, FALSE))
        /\ UNCHANGED <<mbuf_chunk_size, mbuf_offset, configured>>

Remove ==
    \E b \in Queued :
        /\ Running
        /\ Apply(mbuf_remove(Cur, b), held \cup {b},
                 Call("remove", b, IF mq.first = b THEN NULL ELSE Pred(hdr, mq, b),
                      0, NULL, FALSE))
        /\ UNCHANGED <<mbuf_chunk_size, mbuf_offset, configured>>

Lshift ==
    \E b \in Callable :
        /\ Running
        /\ Apply(mbuf_lshift(Cur, b), held, Call("lshift", b, NULL, 0, NULL, FALSE))
        /\ UNCHANGED <<mbuf_chunk_size, mbuf_offset, configured>>

Rshift ==
    \E b \in Callable :
        /\ Running
        /\ Apply(mbuf_rshift(Cur, b), held, Call("rshift", b, NULL, 0, NULL, FALSE))
        /\ UNCHANGED <<mbuf_chunk_size, mbuf_offset, configured>>

Copy ==
    \E b \in Callable, dir \in {"fwd", "bwd"} :
      \E src \in CopySources(b) :
        LET addr == src[1]
            n    == src[2]
        IN  /\ Running
            /\ \A a \in addr .. (addr + n - 1) : Readable(a)
            /\ dir = "bwd" => Overlap(hdr[b].wpos, addr, n)
            /\ Apply(mbuf_copy(Cur, b, addr, n, dir), held,
                     Call("copy", b, addr, n, NULL, FALSE))
        /\ UNCHANGED <<mbuf_chunk_size, mbuf_offset, configured>>

Split ==
    \E b \in Callable, cbn \in Precopies,
       p \in AllocChoices(heap, mbuf_chunk_size), g \in {NoGarbage} :
        \E addr \in SplitPoints(hdr[b]) :
            /\ Running
            /\ LET s == mbuf_split(Cur, b, addr, cbn,
                                   mbuf_chunk_size, mbuf_offset, p, g)
               IN  Apply(s, held \cup ({s.ret} \ {NULL}),
                         Call("split", b, addr, cbn, s.ret, s.alloc))
            /\ UNCHANGED <<mbuf_chunk_size, mbuf_offset, configured>>

Borrow ==
    \E p \in AllocChoices(heap, mbuf_chunk_size), g \in {NoGarbage} :
        /\ Running
        /\ LET s == mbuf_borrow(Cur, mbuf_chunk_size, mbuf_offset, p, g)
           IN  Apply(s, held \cup ({s.ret} \ {NULL}),
                     Call("borrow", NULL, NULL, 0, s.ret, s.alloc))
        /\ UNCHANGED <<mbuf_chunk_size, mbuf_offset, configured>>

Return ==
    \E b \in Callable :
        /\ Running
        /\ Apply(mbuf_return(Cur, b), held \ {b},
                 Call("return", b, NULL, 0, NULL, FALSE))
        /\ UNCHANGED <<mbuf_chunk_size, mbuf_offset, configured>>

Next ==
    \/ Setup \/ PoolCreate \/ PoolDestroy
    \/ Create \/ Destroy \/ Reset
    \/ Insert \/ Remove
    \/ Lshift \/ Rshift \/ Copy \/ Split
    \/ Borrow \/ Return

Spec == Init /\ [][Next]_vars

\* ---------------------------------------------------- the queue operations
\* runs of borrow, insert, remove, destroy and return over one more chunk, long
\* enough to queue three buffers and take the middle one out
QueueInit ==
    /\ mbuf_chunk_size = MBUF_SIZE
    /\ mbuf_offset = 0
    /\ configured = FALSE
    /\ hdr = [i \in QueueSlots |-> NoHdr]
    /\ mem = [a \in Addrs |-> IF a < ExtBase + ExtLen THEN ExtData[a - ExtBase + 1] ELSE 0]
    /\ heap = [i \in QueueSlots |-> 0]
    /\ held = {}
    /\ mq = EmptyQ
    /\ mbufp = [freeq |-> EmptyQ, nfree |-> 0, nmax |-> 0, initialized |-> FALSE]
    /\ status = "run"
    /\ last = NoCall
    /\ ncalls = 0

QueueNext ==
    \/ Setup \/ PoolCreate
    \/ Borrow \/ Insert \/ Remove
    \/ Destroy \/ Return

QueueSpec == QueueInit /\ [][QueueNext]_vars

\* ------------------------------------------------------------ the set-up
\* mbuf_setup with any chunk size a uint32_t holds, and what a caller can do
\* with the buffers of that size
SetupAny ==
    \E chunk_size \in AllChunkSizes :
        /\ status = "run" /\ ~configured
        /\ mbuf_chunk_size' = chunk_size
        /\ mbuf_offset' = SetupOffset(chunk_size)
        /\ configured' = TRUE
        /\ status' = IF SetupOK(chunk_size) THEN "run" ELSE "abort"
        /\ last' = Call("setup", NULL, NULL, chunk_size, NULL, FALSE)
        /\ UNCHANGED <<hdr, mem, heap, held, mq, mbufp, ncalls>>

SetupNext ==
    \/ SetupAny \/ PoolCreate
    \/ Borrow \/ Copy \/ Return

SetupSpec == Init /\ [][SetupNext]_vars

TypeOK ==
    /\ status \in {"run", "abort", "undef"}
    /\ held \subseteq Slots
    /\ \A a \in Addrs : mem[a] \in Byte

\* ------------------------------------------------------------------ claims
Live == Alive(heap)
FreeList == QSeq(hdr, mbufp.freeq)
FreeSet == Range(FreeList)
Ordered(h) == h.start <= h.rpos /\ h.rpos <= h.wpos /\ h.wpos <= h.end
Unread(m, h) == Bytes(m, h.rpos, h.wpos)
OwnerCount(b) ==
    (IF b \in FreeSet THEN 1 ELSE 0) + (IF b \in held THEN 1 ELSE 0)
        + (IF b \in Queued THEN 1 ELSE 0)
\* [from, from + n) reaches into the backing memory of the buffer with header h
Touches(h, from, n) == n > 0 /\ from < h.end /\ h.start < from + n

\* C1: after any calls that hit no assertion, every buffer that exists has
\* start <= rpos <= wpos <= end, also one fresh from mbuf_create and the
\* original buffer of a split.
C1_CursorsOrdered ==
    status = "run" => \A b \in Live : Ordered(hdr[b])

\* C2: a buffer that mbuf_borrow returns is empty: rpos = wpos = start, nothing
\* to read, and capacity() bytes to write, whether fresh or from the free list.
C2_BorrowedIsEmpty ==
    (last.op = "borrow" /\ last.r # NULL) =>
        LET h == hdr[last.r]
        IN  /\ h.rpos = h.start /\ h.wpos = h.start
            /\ RsizeOK(h) /\ mbuf_rsize(h) = 0
            /\ WsizeOK(h) /\ mbuf_wsize(h) = mbuf_capacity

\* a borrow that took from the free list a buffer with bytes written to it before
C2_RecycledWitness ==
    /\ last.op = "borrow" /\ last.r # NULL /\ ~last.alloc
    /\ \E a \in Body(hdr[last.r]) : mem[a] # 0

\* C3: after any calls that hit no assertion, every live buffer is owned by
\* exactly one of the free list, a caller and a queue, and is in the free list
\* at most once.
C3_OneOwner ==
    status # "abort" =>
        /\ \A b \in Live : OwnerCount(b) = 1
        /\ \A j, k \in 1 .. Len(FreeList) : FreeList[j] = FreeList[k] => j = k

\* C4: a copy of more bytes than are writable ends in the assertion and has
\* written nothing: cursors and bytes are as before the call.
C4_OversizeCopyAborts ==
    [][(last'.op = "copy" /\ WsizeOK(hdr[last'.b])
            /\ last'.n > mbuf_wsize(hdr[last'.b]))
        => (status' = "abort" /\ hdr' = hdr /\ mem' = mem)]_vars

\* a copy that aborted with room for some, but not all, of its bytes
C4_PartialRoomWitness ==
    /\ last.op = "copy" /\ status = "abort"
    /\ mbuf_wsize(hdr[last.b]) > 0 /\ last.n > mbuf_wsize(hdr[last.b])

\* C5: a copy of n > 0 bytes whose source range overlaps the buffer's own
\* backing memory ends in the assertion, also when the range starts below start.
C5_OverlappingCopyAborts ==
    (last.op = "copy" /\ Touches(hdr[last.b], last.a, last.n)) => status = "abort"

\* C6: a split without precopy at a cut point in the unread data leaves wpos at
\* the cut and rpos where it was, and returns a buffer whose unread bytes are the
\* original's from the cut on; the two together are the original unread bytes.
C6_SplitPreservesBytes ==
    [][(/\ last'.op = "split" /\ last'.n = 0 /\ last'.r # NULL /\ status' = "run"
        /\ hdr[last'.b].rpos <= last'.a /\ last'.a <= hdr[last'.b].wpos)
        => LET b == last'.b
               nbuf == last'.r
           IN  /\ hdr'[b].wpos = last'.a
               /\ hdr'[b].rpos = hdr[b].rpos
               /\ Unread(mem', hdr'[nbuf]) = Bytes(mem, last'.a, hdr[b].wpos)
               /\ Unread(mem', hdr'[b]) \o Unread(mem', hdr'[nbuf])
                      = Unread(mem, hdr[b])]_vars

\* a split that left different bytes on either side
C6_BothHalvesWitness ==
    /\ last.op = "split" /\ last.n = 0 /\ last.r # NULL /\ status = "run"
    /\ Ordered(hdr[last.b])
    /\ Unread(mem, hdr[last.b]) = <<1>>
    /\ Unread(mem, hdr[last.r]) = <<2>>

\* C7: when the free list is empty and the allocator fails, split returns NULL
\* without running the precopy handler; the buffer, the memory and the pool are
\* as before.
C7_SplitFailureLeavesAll ==
    [][(/\ last'.op = "split" /\ mbufp.freeq.first = NULL
        /\ last'.alloc /\ heap' = heap)
        => (/\ last'.r = NULL /\ status' = "run"
            /\ hdr' = hdr /\ mem' = mem /\ mbufp' = mbufp /\ held' = held)]_vars

\* a failed split of a buffer with unread bytes, with a precopy handler given
C7_FailedSplitWitness ==
    /\ last.op = "split" /\ last.r = NULL /\ last.alloc /\ last.n # 0
    /\ status = "run"
    /\ mbuf_rsize(hdr[last.b]) > 0 /\ last.a < hdr[last.b].wpos

\* C8: a copy of n bytes that fit, from a source that does not overlap the
\* buffer, leaves rpos, advances wpos by n and appends exactly the source bytes
\* to the unread bytes; after a reset the unread bytes are the source bytes.
C8_CopyAppends ==
    [][(/\ last'.op = "copy" /\ Ordered(hdr[last'.b])
        /\ last'.n <= mbuf_wsize(hdr[last'.b])
        /\ ~Touches(hdr[last'.b], last'.a, last'.n))
        => LET b == last'.b
           IN  /\ status' = "run"
               /\ hdr'[b].rpos = hdr[b].rpos
               /\ hdr'[b].wpos = hdr[b].wpos + last'.n
               /\ Unread(mem', hdr'[b])
                      = Unread(mem, hdr[b]) \o Bytes(mem, last'.a, last'.a + last'.n)
               /\ (hdr[b].rpos = hdr[b].start /\ hdr[b].wpos = hdr[b].start)
                      => Unread(mem', hdr'[b]) = Bytes(mem, last'.a, last'.a + last'.n)]_vars

\* a second copy that filled the buffer behind the first
C8_TwoCopiesWitness ==
    /\ last.op = "copy" /\ status = "run" /\ last.n = 1
    /\ hdr[last.b].rpos = hdr[last.b].start
    /\ mbuf_full(hdr[last.b])
    /\ Unread(mem, hdr[last.b]) = ExtData \o <<ExtData[1]>>

\* C9: a borrow with a buffer in the free list returns the head of the free list,
\* the chunk that was returned, and does not call the allocator; a borrow calls
\* the allocator only when the free list is empty.
C9_BorrowRecycles ==
    [][(last'.op = "borrow") =>
          IF mbufp.nfree > 0
          THEN /\ last'.r = mbufp.freeq.first /\ last'.r \in FreeSet
               /\ ~last'.alloc /\ heap' = heap
               /\ hdr'[last'.r].start = hdr[last'.r].start
               /\ mbufp'.nfree = mbufp.nfree - 1
          ELSE last'.alloc /\ mbufp.freeq.first = NULL]_vars

\* a borrow that emptied the free list
C9_TookLastFreeWitness ==
    /\ last.op = "borrow" /\ last.r # NULL /\ ~last.alloc
    /\ mbufp.nfree = 0 /\ last.r \in held

\* C10: after setup, capacity() is the chunk size less the header size, and every
\* buffer has end - start = capacity(), its header at that offset of a chunk of
\* exactly the chunk size.
C10_CapacityIsChunkLessHeader ==
    (status = "run" /\ configured) =>
        /\ mbuf_capacity = mbuf_chunk_size - MBUF_HDR_SIZE
        /\ \A b \in Live :
              /\ hdr[b].end - hdr[b].start = mbuf_capacity
              /\ hdr[b].start = SlotBase(b)
              /\ hdr[b].end = SlotBase(b) + (mbuf_chunk_size - MBUF_HDR_SIZE)
              /\ heap[b] = mbuf_chunk_size

\* a created buffer next to a borrowed one
C10_CreatedAndBorrowedWitness ==
    /\ status = "run" /\ last.op = "create" /\ last.r # NULL
    /\ \E b \in Live \ {last.r} : b \in held

\* C11: a destroy or a return of a buffer that is still in the queue, at any
\* position of it and also at its tail, ends in the assertion; a queued buffer
\* is never freed nor put into the free list.
C11_QueuedReleaseAborts ==
    /\ (last.op \in {"destroy", "return"} /\ last.b \in Queued)
           => status = "abort"
    /\ \A b \in Queued : heap[b] > 0 /\ b \notin FreeSet

\* C12: pool_destroy with any number of buffers in the free list, all borrowed
\* buffers returned, ends without an assertion of mbuf_destroy having destroyed
\* each of them, and leaves the free list empty and the count at zero.
C12_PoolDestroyFreesAll ==
    last.op = "pool_destroy" =>
        /\ status = "run"
        /\ Live = {}
        /\ mbufp.freeq = EmptyQ /\ mbufp.nfree = 0

C14_BorrowFailureRecoverable ==
    [][(last'.op = "borrow") =>
          /\ (mbufp.freeq.first = NULL /\ last'.alloc /\ heap' = heap)
                => /\ last'.r = NULL /\ status' = "run"
                   /\ mbufp' = mbufp /\ hdr' = hdr /\ mem' = mem
                   /\ held' = held /\ mq' = mq
          /\ (mbufp.freeq.first # NULL \/ heap' # heap)
                => /\ last'.r # NULL /\ status' = "run"
                   /\ last'.r \in held' /\ last'.r \in Alive(heap')]_vars

\* a borrow that got a fresh buffer as the second call of a run: the first call,
\* with nothing yet to copy to or to return, was a borrow, and it failed, as
\* only one chunk is allocated
C14_RecoveredWitness ==
    /\ last.op = "borrow" /\ last.r # NULL /\ last.alloc /\ status = "run"
    /\ ncalls = 2 /\ Cardinality(Live) = 1 /\ held = {last.r}

\* C15: every buffer in the free list is reset, rpos = wpos = start, and is in
\* no queue of a caller, also one that was written to and returned without a
\* reset in between.
C15_FreeListIsReset ==
    status # "abort" =>
        \A b \in FreeSet :
            /\ hdr[b].rpos = hdr[b].start /\ hdr[b].wpos = hdr[b].start
            /\ b \notin Queued

\* C16: shift_left of a buffer with start <= rpos <= wpos <= end leaves
\* rpos = start and wpos = start + size, size the unread size before, and the
\* bytes of [start, start + size) are then the bytes [rpos, wpos) held before, in
\* order, also where the two ranges overlap.
C16_ShiftLeftPreserves ==
    [][(last'.op = "lshift" /\ Ordered(hdr[last'.b])) =>
          LET b == last'.b
              size == mbuf_rsize(hdr[b])
          IN  /\ status' = "run"
              /\ hdr'[b].rpos = hdr[b].start
              /\ hdr'[b].wpos = hdr[b].start + size
              /\ Bytes(mem', hdr[b].start, hdr[b].start + size) = Unread(mem, hdr[b])
              /\ Unread(mem', hdr'[b]) = Unread(mem, hdr[b])]_vars

\* a shift to the left by one byte of two different unread bytes: the ranges
\* overlap
C16_OverlapWitness ==
    /\ last.op = "lshift" /\ status = "run"
    /\ Unread(mem, hdr[last.b]) = ExtData
    /\ mem[hdr[last.b].wpos] = ExtData[ExtLen]

\* C17: shift_right of a buffer with start <= rpos <= wpos <= end leaves
\* wpos = end and rpos = end - size, size the unread size before: nothing is
\* writable, the unread size is as before, and the bytes of [end - size, end) are
\* then the bytes [rpos, wpos) held before, in order, also where the two ranges
\* overlap.
C17_ShiftRightPreserves ==
    [][(last'.op = "rshift" /\ Ordered(hdr[last'.b])) =>
          LET b == last'.b
              size == mbuf_rsize(hdr[b])
          IN  /\ status' = "run"
              /\ hdr'[b].wpos = hdr[b].end
              /\ hdr'[b].rpos = hdr[b].end - size
              /\ WsizeOK(hdr'[b]) /\ mbuf_wsize(hdr'[b]) = 0
              /\ RsizeOK(hdr'[b]) /\ mbuf_rsize(hdr'[b]) = size
              /\ Bytes(mem', hdr[b].end - size, hdr[b].end) = Unread(mem, hdr[b])]_vars

\* a shift to the right by one byte of two different unread bytes: the ranges
\* overlap
C17_OverlapWitness ==
    /\ last.op = "rshift" /\ status = "run"
    /\ Unread(mem, hdr[last.b]) = ExtData
    /\ hdr[last.b].rpos = hdr[last.b].start + 1
    /\ mem[hdr[last.b].start] = ExtData[1]

\* the sequence s without the element e
Without(s, e) == LET Keep(x) == x # e IN SelectSeq(s, Keep)

\* C18: insert appends the buffer at the tail of the queue, so the queue is in
\* the order of the inserts; remove takes the buffer out from any position, the
\* others keep their order, and the buffer's link is NULL, so that a destroy or
\* a return of it right after passes the link assertion.
C18_QueueLinkage ==
    [][/\ (last'.op = "insert") =>
              /\ status' = "run"
              /\ QSeq(hdr', mq') = QSeq(hdr, mq) \o <<last'.b>>
       /\ (last'.op = "remove") =>
              /\ status' = "run"
              /\ QSeq(hdr', mq') = Without(QSeq(hdr, mq), last'.b)
              /\ Len(QSeq(hdr', mq')) = Len(QSeq(hdr, mq)) - 1
              /\ hdr'[last'.b].next = NULL
              /\ last'.b \in held'
       /\ (/\ last.op = "remove" /\ last'.op \in {"destroy", "return"}
           /\ last'.b = last.b) =>
              /\ status' = "run"
              /\ last'.b \notin held'
              /\ last'.op = "destroy" => heap'[last'.b] = 0]_vars

\* a remove of the middle one of three queued buffers: the one that was in front
\* of it and the one that was behind it are the queue
C18_RemovedMiddleWitness ==
    /\ last.op = "remove" /\ status = "run"
    /\ last.a # NULL
    /\ Len(QSeq(hdr, mq)) = 2
    /\ QSeq(hdr, mq)[1] = last.a
    /\ hdr[last.a].next = QSeq(hdr, mq)[2]

\* C19: a split with a precopy handler runs the handler once on the new buffer
\* before it copies the data: when the handler's p bytes and the bytes from the
\* cut on fit the capacity, the new buffer's unread bytes are the handler's
\* bytes followed by the original's bytes from the cut on; when they do not
\* fit, the copy of the data ends in the assertion with the original's wpos
\* unchanged.
C19_PrecopyThenPayload ==
    [][(/\ last'.op = "split" /\ last'.n # 0 /\ last'.r # NULL
        /\ Ordered(hdr[last'.b])
        /\ hdr[last'.b].rpos <= last'.a /\ last'.a <= hdr[last'.b].wpos)
        => LET b == last'.b
               nbuf == last'.r
               p == last'.n
               cut == last'.a
           IN  IF p + (hdr[b].wpos - cut) <= mbuf_capacity
               THEN /\ status' = "run"
                    /\ Unread(mem', hdr'[nbuf])
                         = Bytes(mem, ExtBase, ExtBase + p) \o Bytes(mem, cut, hdr[b].wpos)
                    /\ mbuf_rsize(hdr'[nbuf]) = p + (hdr[b].wpos - cut)
                    /\ hdr'[b].wpos = cut
               ELSE /\ status' = "abort"
                    /\ hdr'[b] = hdr[b]
                    /\ Unread(mem', hdr'[nbuf]) = Bytes(mem, ExtBase, ExtBase + p)]_vars

\* a split with a handler that left the handler's bytes and one byte of the
\* original in the new buffer, and the byte in front of the cut in the original
C19_PrefixedWitness ==
    /\ last.op = "split" /\ last.n = ExtLen /\ last.r # NULL /\ status = "run"
    /\ Unread(mem, hdr[last.r]) = ExtData \o <<ExtData[ExtLen]>>
    /\ Unread(mem, hdr[last.b]) = <<ExtData[1]>>

\* C20: setup computes the capacity as (chunk_size - header size) mod 2^32, and
\* its assertion fails for every chunk size up to the header size, also for 0,
\* where the subtraction wraps around, and holds for every larger one, with the
\* capacity then chunk_size - header size.
C20_SetupRejectsNoBody ==
    (last.op = "setup") =>
        LET chunk_size == last.n
        IN  /\ mbuf_chunk_size = chunk_size
            /\ mbuf_offset = (chunk_size - MBUF_HDR_SIZE) % Modulus
            /\ mbuf_capacity = mbuf_offset
            /\ chunk_size <= MBUF_HDR_SIZE => status = "abort"
            /\ chunk_size > MBUF_HDR_SIZE =>
                   status = "run" /\ mbuf_capacity = chunk_size - MBUF_HDR_SIZE

\* a setup with chunk size 0: the capacity wrapped around to the largest values
\* and the assertion failed
C20_WrappedWitness ==
    /\ last.op = "setup" /\ last.n = 0 /\ status = "abort"
    /\ mbuf_offset = Modulus - MBUF_HDR_SIZE /\ mbuf_offset > 0

====
